---- MODULE Spec2Model ----
(***************************************************************************)
(* h2olog-collector-gcs (src/main.go): newline-delimited JSON trace events *)
(* are grouped per connection id in an LRU table (connToLogs); a `free`    *)
(* event finalizes the entry and dispatches a goroutine (uploadEvents)     *)
(* that names, serializes and writes the entry; main waits on a WaitGroup. *)
(***************************************************************************)
EXTENDS Integers, Sequences, FiniteSets, TLC

\* ------------------------------------------------------------------ bounds
\* Input lines the reader consumes before end of input; the specifications
\* that draw lines from a wider alphabet read fewer.
MaxLines == 5
MaxFieldLines == 3
MaxUploadLines == 4
\* Connection ids 1..NumConns appear in the input.
NumConns == 3
\* Capacity of the LRU table (mustLruMap(10000) in the program, scaled down).
LruSize == 2
\* -max-num-events is drawn from 1..MaxCap (default 100000 in the program).
MaxCap == 4
\* `time` values (milliseconds) 1..MaxTime, `pn` values 0..MaxPn.
MaxTime == 2
MaxPn == 1

\* ------------------------------------------------------- JSON field values
\* A field of a decoded event as rawEvent[key] yields it: nil (key absent),
\* a json.Number whose Int64() fails (1.5, 1e99), a value of another JSON type
\* (a string), or a json.Number holding an int64.
Absent == [tag |-> "absent", val |-> 0]
NonInt == [tag |-> "nonint", val |-> 0]
NonNumber == [tag |-> "string", val |-> 0]
Num(n) == [tag |-> "int", val |-> n]
\* the json.Number -62135596800000: as milliseconds since the Unix epoch it is
\* January 1, year 1 UTC, the instant of time.Time{}; it is an int64 and is
\* beyond the integers of the model, so it is a value of its own
YearOne == [tag |-> "yearone", val |-> 0]

\* rawEvent[key].(json.Number): the single-value type assertion panics unless
\* the dynamic type is json.Number.
AssertNumberPanics(f) == f.tag \in {"absent", "string"}
\* json.Number.Int64() returns err == nil
Int64Ok(f) == f.tag \in {"int", "yearone"}

Conns == 1..NumConns
TwoConns == {1, 2}
Types == {"accept", "packet-sent", "packet-acked", "free"}
TimeVals == {Absent, NonInt, NonNumber} \cup {Num(t) : t \in 1..MaxTime}
PnVals == {Absent, NonInt, NonNumber} \cup {Num(p) : p \in 0..MaxPn}
NoDcid == "nil"
DcidVals == {NoDcid, "abc"}

\* The decoded events (h2ologEvent = map[string]interface{}) a line can hold.
Event(c, ty, t, p, d) == [conn |-> c, type |-> ty, time |-> t, pn |-> p, dcid |-> d]

\* accept and free of connection 1 at two times, at the instant of
\* time.Time{} and with a `time` that is not an integer
TimeLines ==
    {Event(1, ty, t, Absent, IF ty = "accept" THEN "abc" ELSE NoDcid) :
        ty \in {"accept", "free"}, t \in {YearOne, NonInt, Num(1), Num(2)}}

\* every line the model knows
EventLines ==
    TimeLines \cup
    {Event(c, "accept", t, Absent, d) : c \in Conns, t \in TimeVals, d \in DcidVals}
    \cup {Event(c, "free", t, Absent, NoDcid) : c \in Conns, t \in TimeVals}
    \cup {Event(c, ty, t, p, NoDcid) :
            c \in Conns, ty \in {"packet-sent", "packet-acked"},
            t \in TimeVals, p \in PnVals}

\* accept and free of every connection: what the table and the dispatch see
TableLines ==
    {Event(c, "accept", Num(1), Absent, "abc") : c \in Conns}
    \cup {Event(c, "free", Num(1), Absent, NoDcid) : c \in Conns}

\* connection 1 with accept and free, the other connections fill the table:
\* what the payload cap sees
CapLines ==
    {Event(1, "accept", Num(1), Absent, "abc"), Event(1, "free", Num(1), Absent, NoDcid)}
    \cup {Event(c, "accept", Num(1), Absent, "abc") : c \in Conns \ {1}}

\* every `time` on accept and free, every `pn` on the packet events
FieldLines ==
    {Event(c, ty, t, Absent, IF ty = "accept" THEN "abc" ELSE NoDcid) :
        c \in TwoConns, ty \in {"accept", "free"}, t \in TimeVals}
    \cup {Event(c, ty, Num(1), p, NoDcid) :
            c \in TwoConns, ty \in {"packet-sent", "packet-acked"}, p \in PnVals}

\* accept (with and without dcid) and free of two connections
UploadLines ==
    {Event(c, "accept", Num(1), Absent, d) : c \in TwoConns, d \in DcidVals}
    \cup {Event(c, "free", Num(1), Absent, NoDcid) : c \in TwoConns}

\* ------------------------------------------------------------------- state
VARIABLES
    maxNumEvents,  \* -max-num-events
    localDir,      \* storage.localDir != nil
    bucket,        \* storage.bucket != nil
    pc,            \* main: "reading" (in readJSONLine), "waiting" (latch.Wait), "exited"
    fatal,         \* what ended the process (a panic or log.Fatalf), or NotFatal
    nread,         \* lines consumed by scanner.Scan()
    heap,          \* the logEntry objects allocated so far; a pointer is an index
    connToLogs,    \* the LRU cache: <<key, pointer>> pairs, most recently used first
    history,       \* per logEntry, the events applied to it, the number
                   \* discarded because it was processed and the line of the
                   \* last connToLogs.Get or Add of it (not program state)
    tasks,         \* the uploadEvents goroutines started so far
    latch,         \* the WaitGroup counter
    localFiles,    \* files in localDir: [name, data]
    bucketObjects, \* objects in the GCS bucket: [name, data]
    logs,          \* what log.Printf reported
    ch,            \* worker-pool variant: the batches buffered in the channel
    finished       \* worker-pool variant: the global `finished` flag

vars == <<maxNumEvents, localDir, bucket, pc, fatal, nread, heap, connToLogs,
          history, tasks, latch, localFiles, bucketObjects, logs, ch, finished>>

host == "h"

\* time.Time as seconds and nanoseconds since the Unix epoch. time.Time{} is
\* January 1, year 1 UTC, 62135596800 s before the epoch: no millisecond count
\* the model can hold converts to it, so it is kept as a value of its own.
ZeroTime == [zero |-> TRUE, sec |-> 0, nsec |-> 0]
IsZero(t) == t.zero

\* Go's / truncates toward zero
GoDiv(a, b) == IF a >= 0 THEN a \div b ELSE -((-a) \div b)

millisToTime(millis) ==
    LET sec == GoDiv(millis, 1000)
        nsec == (millis - (sec * 1000)) * 1000000
    IN  \* time.Unix normalizes nsec into [0, 1e9)
        IF nsec < 0
        THEN [zero |-> FALSE, sec |-> sec - 1, nsec |-> nsec + 1000000000]
        ELSE [zero |-> FALSE, sec |-> sec, nsec |-> nsec]

\* ---------------------------------------------------------------- LRU cache
\* lru.Cache of hashicorp/golang-lru as the program uses it: Get moves the key
\* to the front, Add of a new key pushes it to the front and removes the
\* oldest (last) element when the length exceeds the size.
mustLruMap(n) == <<>>

SeqRemoveAt(s, i) == SubSeq(s, 1, i - 1) \o SubSeq(s, i + 1, Len(s))

LruIndex(cache, key) ==
    IF \E i \in 1..Len(cache) : cache[i].key = key
    THEN CHOOSE i \in 1..Len(cache) : cache[i].key = key
    ELSE 0

LruContains(cache, key) == LruIndex(cache, key) # 0

LruValue(cache, key) == cache[LruIndex(cache, key)].value

\* LruGet that takes the key out of the cache
LruGetRemoves(cache, key) == SeqRemoveAt(cache, LruIndex(cache, key))

\* LruGet that leaves the order alone
LruGetNoTouch(cache, key) == cache

\* the cache after connToLogs.Get(key) hit
LruGet(cache, key) ==
    LET i == LruIndex(cache, key)
    IN  <<cache[i]>> \o SeqRemoveAt(cache, i)

\* LruAdd that never evicts
LruAddUnbounded(cache, key, value) == <<[key |-> key, value |-> value]>> \o cache

\* the cache after connToLogs.Add(key, value) of a key it does not hold
LruAdd(cache, key, value) ==
    LET pushed == <<[key |-> key, value |-> value]>> \o cache
    IN  IF Len(pushed) > LruSize THEN SubSeq(pushed, 1, Len(pushed) - 1) ELSE pushed

\* pointers the table holds
Resident == {connToLogs[i].value : i \in 1..Len(connToLogs)}

\* ------------------------------------------------------------ readJSONLine
\* NewEntry that takes over the events of the connection id's previous entry
\* when that entry was not processed
NewEntryRevived(connID) ==
    LET prev == {q \in 1..Len(heap) : heap[q].connID = connID /\ ~heap[q].processed}
    IN  [connID |-> connID, startTime |-> ZeroTime, endTime |-> ZeroTime,
         sentPn |-> -1, ackedPn |-> -1, processed |-> FALSE, numEvents |-> 0,
         events |-> IF prev = {} THEN <<>>
                    ELSE heap[CHOOSE q \in prev : \A r \in prev : r <= q].events]

\* NewEntry that carries over the packet numbers, the start time and the
\* count of the connection id's previous entry
NewEntryCarried(connID) ==
    LET prev == {q \in 1..Len(heap) : heap[q].connID = connID}
        last == CHOOSE q \in prev : \A r \in prev : r <= q
    IN  [connID |-> connID,
         startTime |-> IF prev = {} THEN ZeroTime ELSE heap[last].startTime,
         endTime |-> ZeroTime,
         sentPn |-> IF prev = {} THEN -1 ELSE heap[last].sentPn,
         ackedPn |-> IF prev = {} THEN -1 ELSE heap[last].ackedPn,
         processed |-> FALSE,
         numEvents |-> IF prev = {} THEN 0 ELSE heap[last].numEvents,
         events |-> <<>>]

NewEntry(connID) ==
    [connID |-> connID, startTime |-> ZeroTime, endTime |-> ZeroTime,
     sentPn |-> -1, ackedPn |-> -1, processed |-> FALSE, numEvents |-> 0,
     events |-> <<>>]

\* millisToTime of the int64 a `time` holds
EventTime(f) == IF f = YearOne THEN ZeroTime ELSE millisToTime(f.val)

\* lines 178-187
ApplyTime(entry, ev) ==
    IF Int64Ok(ev.time)
    THEN LET time == EventTime(ev.time)
         IN  [entry EXCEPT !.startTime = IF IsZero(@) THEN time ELSE @,
                           !.endTime = time]
    ELSE entry

\* ApplyPn that keeps the largest packet number seen
ApplyPnMax(entry, ev) ==
    IF ev.type = "packet-sent" /\ Int64Ok(ev.pn) /\ ev.pn.val > entry.sentPn
    THEN [entry EXCEPT !.sentPn = ev.pn.val]
    ELSE IF ev.type = "packet-acked" /\ Int64Ok(ev.pn) /\ ev.pn.val > entry.ackedPn
    THEN [entry EXCEPT !.ackedPn = ev.pn.val]
    ELSE entry

\* lines 189-201
ApplyPn(entry, ev) ==
    IF ev.type = "packet-sent"
    THEN IF Int64Ok(ev.pn) THEN [entry EXCEPT !.sentPn = ev.pn.val] ELSE entry
    ELSE IF ev.type = "packet-acked"
    THEN IF Int64Ok(ev.pn) THEN [entry EXCEPT !.ackedPn = ev.pn.val] ELSE entry
    ELSE entry

\* Retains without the slot reserved for quicly:free
RetainsNoReserve(entry, ev) == Len(entry.events) < maxNumEvents \/ ev.type = "free"

\* Retains with no exception for quicly:free
RetainsCapped(entry, ev) == (Len(entry.events) + 1) < maxNumEvents

\* line 206: +1 is reserved for quicly:free, which is always recorded
Retains(entry, ev) == (Len(entry.events) + 1) < maxNumEvents \/ ev.type = "free"

\* CountAndStore that puts the event in front
CountAndStoreFront(entry, ev) ==
    [entry EXCEPT !.numEvents = @ + 1,
                  !.events = IF Retains(entry, ev) THEN <<ev>> \o @ ELSE @]

\* lines 203-208
CountAndStore(entry, ev) ==
    [entry EXCEPT !.numEvents = @ + 1,
                  !.events = IF Retains(entry, ev) THEN Append(@, ev) ELSE @]

\* Completes that also holds once a packet number above a threshold was seen
CompletesOnPn(entry, ev) == ev.type = "free" \/ entry.sentPn > 0 \/ entry.ackedPn > 0

\* line 210: the completion condition
Completes(entry, ev) == ev.type = "free"

\* MarkProcessed that forgets the flag
MarkProcessedNever(entry, ev) == entry

\* line 216
MarkProcessed(entry, ev) ==
    IF Completes(entry, ev) THEN [entry EXCEPT !.processed = TRUE] ELSE entry

\* Skips that lets every event through
SkipsNever(entry) == FALSE

\* line 174: events of a processed entry are skipped
Skips(entry) == entry.processed

TimePanics(ev) == AssertNumberPanics(ev.time)
PnPanics(ev) == ev.type \in {"packet-sent", "packet-acked"} /\ AssertNumberPanics(ev.pn)

NoName == <<>>
NewTask(ptr) ==
    [entry |-> ptr, pc |-> "start", name |-> NoName, data |-> <<>>,
     tried |-> {}, err |-> FALSE]

NotFatal == "none"
crashed == fatal # NotFatal
Running == ~crashed /\ pc # "exited"

\* ReadMalformed that ends the process as log.Fatalf would
ReadMalformedFatal ==
    /\ Running /\ pc = "reading" /\ nread < MaxLines
    /\ nread' = nread + 1
    /\ logs' = logs \cup {<<"Cannot parse JSON string", nread + 1>>}
    /\ fatal' = "Cannot parse JSON string"
    /\ UNCHANGED <<ch, finished, maxNumEvents, localDir, bucket, pc, heap, connToLogs,
                   history, tasks, latch, localFiles, bucketObjects>>

\* line 140-145: the line does not decode as a JSON object
ReadMalformed ==
    /\ Running /\ pc = "reading" /\ nread < MaxLines
    /\ nread' = nread + 1
    /\ logs' = logs \cup {<<"Cannot parse JSON string", nread + 1>>}
    /\ UNCHANGED <<ch, finished, maxNumEvents, localDir, bucket, pc, fatal, heap, connToLogs,
                   history, tasks, latch, localFiles, bucketObjects>>

\* lines 147-149: no `conn` field
ReadNoConn ==
    /\ Running /\ pc = "reading" /\ nread < MaxLines
    /\ nread' = nread + 1
    /\ UNCHANGED <<ch, finished, maxNumEvents, localDir, bucket, pc, fatal, heap, connToLogs,
                   history, tasks, latch, localFiles, bucketObjects, logs>>

\* lines 151-154: `conn` is not a json.Number (the assertion panics) or does
\* not fit an int64 (log.Fatalf)
ReadBadConn ==
    /\ Running /\ pc = "reading" /\ nread < MaxLines
    /\ nread' = nread + 1
    /\ fatal' = "Unexpected connection ID"
    /\ UNCHANGED <<ch, finished, maxNumEvents, localDir, bucket, pc, heap, connToLogs,
                   history, tasks, latch, localFiles, bucketObjects, logs>>

\* lines 156-220: one decoded event with an integer `conn`
ReadEvent(l) ==
    /\ Running /\ pc = "reading" /\ nread < MaxLines
    /\ nread' = nread + 1
    /\ LET ev == [conn |-> l.conn, type |-> l.type, time |-> l.time, pn |-> l.pn,
                  dcid |-> l.dcid, line |-> nread + 1]
           ok == LruContains(connToLogs, ev.conn)
           ptr == IF ok THEN LruValue(connToLogs, ev.conn) ELSE Len(heap) + 1
           heap1 == IF ok THEN heap ELSE Append(heap, NewEntry(ev.conn))
           hist1 == IF ok THEN [history EXCEPT ![ptr].last = nread + 1]
                          ELSE Append(history, [applied |-> <<>>, discarded |-> 0,
                                                last |-> nread + 1])
           entry == heap1[ptr]
           e1 == ApplyTime(entry, ev)
           e2 == MarkProcessed(CountAndStore(ApplyPn(e1, ev), ev), ev)
       IN  /\ connToLogs' = IF ok THEN LruGet(connToLogs, ev.conn)
                                  ELSE LruAdd(connToLogs, ev.conn, ptr)
           /\ IF Skips(entry)
              THEN /\ heap' = heap1
                   /\ history' = [hist1 EXCEPT ![ptr].discarded = @ + 1]
                   /\ UNCHANGED <<fatal, tasks, latch>>
              ELSE IF TimePanics(ev)
              THEN /\ heap' = heap1 /\ history' = hist1
                   /\ fatal' = "interface conversion: time"
                   /\ UNCHANGED <<tasks, latch>>
              ELSE IF PnPanics(ev)
              THEN /\ heap' = [heap1 EXCEPT ![ptr] = e1] /\ history' = hist1
                   /\ fatal' = "interface conversion: pn"
                   /\ UNCHANGED <<tasks, latch>>
              ELSE /\ heap' = [heap1 EXCEPT ![ptr] = e2]
                   /\ history' = [hist1 EXCEPT ![ptr].applied = Append(@, ev)]
                   /\ UNCHANGED fatal
                   /\ IF Completes(entry, ev)
                      THEN /\ latch' = latch + 1
                           /\ tasks' = Append(tasks, NewTask(ptr))
                      ELSE UNCHANGED <<tasks, latch>>
    /\ UNCHANGED <<ch, finished, maxNumEvents, localDir, bucket, pc, localFiles, bucketObjects, logs>>

\* ------------------------------------------------------------ uploadEvents
\* index of the first quicly:accept among the retained events, 0 if none
FirstAccept(events) ==
    IF \E i \in 1..Len(events) : events[i].type = "accept"
    THEN CHOOSE i \in 1..Len(events) :
            /\ events[i].type = "accept"
            /\ \A j \in 1..(i - 1) : events[j].type # "accept"
    ELSE 0

\* buildObjectName panics: no accept, or the accept has no dcid or no time
NamePanics(entry) ==
    LET i == FirstAccept(entry.events)
    IN  \/ i = 0
        \/ entry.events[i].dcid = NoDcid
        \/ entry.events[i].time = Absent

\* the message of that panic
NamePanicMessage(entry) ==
    LET i == FirstAccept(entry.events)
    IN  IF i = 0 THEN "No quicly:accept is found in events"
        ELSE IF entry.events[i].dcid = NoDcid THEN "No dcid is set in quicly:accept"
        ELSE "No time is set in quicly:accept"

\* buildObjectName that takes the last quicly:accept
buildObjectNameLast(entry) ==
    LET accepts == SelectSeq(entry.events, LAMBDA ev : ev.type = "accept")
        rawEvent == accepts[Len(accepts)]
    IN  <<host, rawEvent.dcid, rawEvent.time>>

\* fmt.Sprintf("%s-%v-%v", host, dcid, time)
buildObjectName(entry) ==
    LET rawEvent == entry.events[FirstAccept(entry.events)]
    IN  <<host, rawEvent.dcid, rawEvent.time>>

\* serializeEvents with the packet numbers exchanged
serializeEventsSwapped(ID, entry) ==
    [id |-> ID, host |-> host, start_time |-> entry.startTime,
     end_time |-> entry.endTime, conn_id |-> entry.connID,
     sent_pn |-> entry.ackedPn, acked_pn |-> entry.sentPn,
     num_events |-> entry.numEvents, payload |-> entry.events]

serializeEvents(ID, entry) ==
    [id |-> ID, host |-> host, start_time |-> entry.startTime,
     end_time |-> entry.endTime, conn_id |-> entry.connID,
     sent_pn |-> entry.sentPn, acked_pn |-> entry.ackedPn,
     num_events |-> entry.numEvents, payload |-> entry.events]

\* os.WriteFile / the GCS writer replace what the name held
Put(store, name, data) ==
    {o \in store : o.name # name} \cup {[name |-> name, data |-> data]}

\* storageManager.write with the sinks' outcomes okLocal, okBucket:
\* the files, the objects, the sinks tried and the error returned
StorageWrite(name, data, okLocal, okBucket) ==
    IF localDir /\ ~okLocal
    THEN [files |-> localFiles, objects |-> bucketObjects,
          tried |-> {"local"}, err |-> TRUE]
    ELSE LET files == IF localDir THEN Put(localFiles, name, data) ELSE localFiles
             triedLocal == IF localDir THEN {"local"} ELSE {}
         IN  IF bucket
             THEN [files |-> files,
                   objects |-> IF okBucket THEN Put(bucketObjects, name, data)
                                           ELSE bucketObjects,
                   tried |-> triedLocal \cup {"bucket"}, err |-> ~okBucket]
             ELSE [files |-> files, objects |-> bucketObjects,
                   tried |-> triedLocal, err |-> FALSE]

\* lines 259-265: the goroutine names and serializes its entry (json.Marshal
\* does not fail on decoded events and on the times the model holds). A panic
\* of buildObjectName runs the deferred latch.Done(), is not recovered and
\* ends the process.
TaskBuild(i) ==
    /\ Running /\ tasks[i].pc = "start"
    /\ LET entry == heap[tasks[i].entry]
       IN  IF NamePanics(entry)
           THEN /\ fatal' = NamePanicMessage(entry)
                /\ tasks' = [tasks EXCEPT ![i].pc = "panicked"]
                /\ latch' = latch - 1
           ELSE /\ tasks' = [tasks EXCEPT
                        ![i].pc = "write",
                        ![i].name = buildObjectName(entry),
                        ![i].data = <<serializeEvents(buildObjectName(entry), entry)>>]
                /\ UNCHANGED <<fatal, latch>>
    /\ UNCHANGED <<ch, finished, maxNumEvents, localDir, bucket, pc, nread, heap, connToLogs,
                   history, localFiles, bucketObjects, logs>>

\* TaskWrite that keeps the task writing until a write succeeds
TaskWriteRetrying(i, okLocal, okBucket) ==
    /\ Running /\ tasks[i].pc = "write"
    /\ LET w == StorageWrite(tasks[i].name, tasks[i].data[1], okLocal, okBucket)
       IN  /\ localFiles' = w.files
           /\ bucketObjects' = w.objects
           /\ tasks' = [tasks EXCEPT ![i].pc = IF w.err THEN "write" ELSE "done",
                                     ![i].tried = w.tried, ![i].err = w.err]
           /\ logs' = IF w.err
                      THEN logs \cup {<<"Failed to write the payload", tasks[i].name>>}
                      ELSE logs
           /\ latch' = IF w.err THEN latch ELSE latch - 1
    /\ UNCHANGED <<ch, finished, maxNumEvents, localDir, bucket, pc, fatal, nread, heap,
                   connToLogs, history>>

\* TaskWrite that calls latch.Done() only when the write succeeded
TaskWriteDoneOnSuccess(i, okLocal, okBucket) ==
    /\ Running /\ tasks[i].pc = "write"
    /\ LET w == StorageWrite(tasks[i].name, tasks[i].data[1], okLocal, okBucket)
       IN  /\ localFiles' = w.files
           /\ bucketObjects' = w.objects
           /\ tasks' = [tasks EXCEPT ![i].pc = "done", ![i].tried = w.tried,
                                     ![i].err = w.err]
           /\ logs' = IF w.err
                      THEN logs \cup {<<"Failed to write the payload", tasks[i].name>>}
                      ELSE logs
           /\ latch' = IF w.err THEN latch ELSE latch - 1
    /\ UNCHANGED <<ch, finished, maxNumEvents, localDir, bucket, pc, fatal, nread, heap,
                   connToLogs, history>>

\* lines 267-277 and the deferred latch.Done()
TaskWrite(i, okLocal, okBucket) ==
    /\ Running /\ tasks[i].pc = "write"
    /\ LET w == StorageWrite(tasks[i].name, tasks[i].data[1], okLocal, okBucket)
       IN  /\ localFiles' = w.files
           /\ bucketObjects' = w.objects
           /\ tasks' = [tasks EXCEPT ![i].pc = "done", ![i].tried = w.tried,
                                     ![i].err = w.err]
           /\ logs' = IF w.err
                      THEN logs \cup {<<"Failed to write the payload", tasks[i].name>>}
                      ELSE logs
    /\ latch' = latch - 1
    /\ UNCHANGED <<ch, finished, maxNumEvents, localDir, bucket, pc, fatal, nread, heap,
                   connToLogs, history>>

\* ---------------------------------------------------------------------- main
\* scanner.Scan() returns false: readJSONLine returns, main calls latch.Wait()
EndOfInput ==
    /\ Running /\ pc = "reading"
    /\ pc' = "waiting"
    /\ UNCHANGED <<ch, finished, maxNumEvents, localDir, bucket, fatal, nread, heap, connToLogs,
                   history, tasks, latch, localFiles, bucketObjects, logs>>

\* latch.Wait() returns when the counter is zero, and main returns
Exit ==
    /\ Running /\ pc = "waiting" /\ latch = 0
    /\ pc' = "exited"
    /\ UNCHANGED <<ch, finished, maxNumEvents, localDir, bucket, fatal, nread, heap, connToLogs,
                   history, tasks, latch, localFiles, bucketObjects, logs>>

Init ==
    /\ maxNumEvents \in 1..MaxCap
    /\ localDir \in BOOLEAN
    /\ bucket \in BOOLEAN
    /\ pc = "reading"
    /\ fatal = NotFatal
    /\ nread = 0
    /\ heap = <<>>
    /\ connToLogs = mustLruMap(LruSize)
    /\ history = <<>>
    /\ tasks = <<>>
    /\ latch = 0
    /\ localFiles = {}
    /\ bucketObjects = {}
    /\ logs = {}
    /\ ch = <<>>
    /\ finished = FALSE

Next ==
    \/ ReadMalformed
    \/ ReadNoConn
    \/ ReadBadConn
    \/ \E l \in EventLines : ReadEvent(l)
    \/ \E i \in 1..Len(tasks) : TaskBuild(i)
    \/ \E i \in 1..Len(tasks) : \E okLocal, okBucket \in BOOLEAN :
          TaskWrite(i, okLocal, okBucket)
    \/ EndOfInput
    \/ Exit

Spec == Init /\ [][Next]_vars

\* The table and the dispatch: every connection id, accept and free only,
\* the local sink alone, which does not fail.
InitTable == Init /\ maxNumEvents = MaxCap /\ localDir /\ ~bucket

NextTable ==
    \/ \E l \in TableLines : ReadEvent(l)
    \/ \E i \in 1..Len(tasks) : TaskBuild(i)
    \/ \E i \in 1..Len(tasks) : TaskWrite(i, TRUE, TRUE)
    \/ EndOfInput
    \/ Exit

SpecTable == InitTable /\ [][NextTable]_vars

\* The payload cap: every -max-num-events.
InitCap == Init /\ localDir /\ ~bucket

NextCap ==
    \/ \E l \in CapLines : ReadEvent(l)
    \/ \E i \in 1..Len(tasks) : TaskBuild(i)
    \/ \E i \in 1..Len(tasks) : TaskWrite(i, TRUE, TRUE)
    \/ EndOfInput
    \/ Exit

SpecCap == InitCap /\ [][NextCap]_vars

\* The fields of an event: every `time` and `pn` the decoder can yield.
NextFields ==
    \/ \E l \in FieldLines : nread < MaxFieldLines /\ ReadEvent(l)
    \/ \E i \in 1..Len(tasks) : TaskBuild(i)
    \/ \E i \in 1..Len(tasks) : TaskWrite(i, TRUE, TRUE)
    \/ EndOfInput
    \/ Exit

SpecFields == InitTable /\ [][NextFields]_vars

\* The upload side: every sink configuration and every outcome of a write.
InitUpload == Init /\ maxNumEvents = MaxCap

NextUpload ==
    \/ \E l \in UploadLines : nread < MaxUploadLines /\ ReadEvent(l)
    \/ \E i \in 1..Len(tasks) : TaskBuild(i)
    \/ \E i \in 1..Len(tasks) : \E okLocal, okBucket \in BOOLEAN :
          TaskWrite(i, okLocal, okBucket)
    \/ EndOfInput
    \/ Exit

SpecUpload == InitUpload /\ [][NextUpload]_vars

\* accept and free of two connections
SkipLines ==
    {Event(c, "accept", Num(1), Absent, "abc") : c \in TwoConns}
    \cup {Event(c, "free", Num(1), Absent, NoDcid) : c \in TwoConns}

\* The lines the reader skips, among lines it applies.
NextSkip ==
    \/ nread < MaxUploadLines /\ ReadMalformed
    \/ nread < MaxUploadLines /\ ReadNoConn
    \/ \E l \in SkipLines : nread < MaxUploadLines /\ ReadEvent(l)
    \/ \E i \in 1..Len(tasks) : TaskBuild(i)
    \/ \E i \in 1..Len(tasks) : TaskWrite(i, TRUE, TRUE)
    \/ EndOfInput
    \/ Exit

SpecSkip == InitTable /\ [][NextSkip]_vars

\* accept at 100 ms, packet-sent of pn 5 at 101 ms and free at 200 ms
ScenarioLines ==
    {Event(c, "accept", Num(100), Absent, "abc") : c \in TwoConns}
    \cup {Event(c, "packet-sent", Num(101), Num(5), NoDcid) : c \in TwoConns}
    \cup {Event(c, "free", Num(200), Absent, NoDcid) : c \in TwoConns}

\* A connection from accept to free, every -max-num-events.
NextScenario ==
    \/ \E l \in ScenarioLines : nread < MaxUploadLines /\ ReadEvent(l)
    \/ \E i \in 1..Len(tasks) : TaskBuild(i)
    \/ \E i \in 1..Len(tasks) : TaskWrite(i, TRUE, TRUE)
    \/ EndOfInput
    \/ Exit

SpecScenario == InitCap /\ [][NextScenario]_vars

\* connection 1 with a packet number and two times, the other connections
\* fill the table
EvictLines ==
    {Event(1, "packet-sent", Num(1), Num(1), NoDcid),
     Event(1, "accept", Num(2), Absent, "abc"),
     Event(1, "free", Num(2), Absent, NoDcid)}
    \cup {Event(c, "accept", Num(1), Absent, "abc") : c \in Conns \ {1}}

\* A connection id that comes back after its entry was evicted.
NextEvict ==
    \/ \E l \in EvictLines : ReadEvent(l)
    \/ \E i \in 1..Len(tasks) : TaskBuild(i)
    \/ \E i \in 1..Len(tasks) : TaskWrite(i, TRUE, TRUE)
    \/ EndOfInput
    \/ Exit

SpecEvict == InitTable /\ [][NextEvict]_vars

\* The times of an entry: every int64 `time`, the instant of time.Time{}
\* included.
NextTimes ==
    \/ \E l \in TimeLines : nread < MaxUploadLines /\ ReadEvent(l)
    \/ \E i \in 1..Len(tasks) : TaskBuild(i)
    \/ \E i \in 1..Len(tasks) : TaskWrite(i, TRUE, TRUE)
    \/ EndOfInput
    \/ Exit

SpecTimes == InitTable /\ [][NextTimes]_vars

\* The upload side with the scheduling the runtime gives: a goroutine that can
\* run does run, a write to a sink returns, and main, once latch.Wait() can
\* return, returns. Nothing makes the input end.
SpecUploadLive ==
    /\ SpecUpload
    /\ WF_vars(\E i \in 1..Len(tasks) : TaskBuild(i))
    /\ WF_vars(\E i \in 1..Len(tasks) : \E okLocal, okBucket \in BOOLEAN :
                  TaskWrite(i, okLocal, okBucket))
    /\ WF_vars(Exit)

\* ------------------------------------------------------ worker-pool variant
\* src/unnamed/part_001: main starts numWorkers uploadEvents goroutines that
\* poll a buffered channel on a ticker; readJSONLine sends the events of a
\* completed entry on the channel; main sets `finished` after the input ended
\* and waits on the latch. heap holds this variant's logEntry (connID, events,
\* sentPn, ackedPn, uploaded), tasks its workers.

\* -workers (default 16) and chanBufferSize (5000), scaled down
NumWorkers == 1
ChanBufferSize == 2

maxSentPn == 10
maxAckedPn == 10

\* accept and free of two connections, and a packet number above maxSentPn
PoolLines ==
    SkipLines \cup {Event(1, "packet-sent", Num(1), Num(maxSentPn + 1), NoDcid)}

PoolNewEntry(connID) ==
    [connID |-> connID, events |-> <<>>, sentPn |-> -1, ackedPn |-> -1,
     uploaded |-> FALSE]

\* part_001 line 178
PoolCompletes(entry, ev) ==
    ev.type = "free" \/ entry.sentPn > maxSentPn \/ entry.ackedPn > maxAckedPn

\* a worker: where it is in its loop, and the batches it took off the channel
Worker == [pc |-> "tick", received |-> <<>>]

\* part_001 serializeEvents: createdAt is the clock when the line was read,
\* for which the number of the line stands
PoolSerializeEvents(rawEvents) ==
    [host |-> host, start_time |-> rawEvents[1].line,
     end_time |-> rawEvents[Len(rawEvents)].line, payload |-> rawEvents]

\* part_001 lines 141-184: one decoded event with an integer `conn`; the send
\* on a full channel blocks the reader
PoolReadEvent(l) ==
    /\ Running /\ pc = "reading" /\ nread < MaxLines
    /\ nread' = nread + 1
    /\ LET ev == [conn |-> l.conn, type |-> l.type, time |-> l.time, pn |-> l.pn,
                  dcid |-> l.dcid, line |-> nread + 1]
           ok == LruContains(connToLogs, ev.conn)
           ptr == IF ok THEN LruValue(connToLogs, ev.conn) ELSE Len(heap) + 1
           heap1 == IF ok THEN heap ELSE Append(heap, PoolNewEntry(ev.conn))
           entry == heap1[ptr]
           e1 == [entry EXCEPT !.events = Append(@, ev)]
           e2 == ApplyPn(e1, ev)
       IN  /\ connToLogs' = IF ok THEN LruGet(connToLogs, ev.conn)
                                  ELSE LruAdd(connToLogs, ev.conn, ptr)
           /\ IF entry.uploaded
              THEN heap' = heap1 /\ UNCHANGED <<fatal, ch>>
              ELSE IF PnPanics(ev)
              THEN /\ heap' = [heap1 EXCEPT ![ptr] = e1]
                   /\ fatal' = "interface conversion: pn"
                   /\ UNCHANGED ch
              ELSE IF PoolCompletes(e2, ev)
              THEN /\ Len(ch) < ChanBufferSize
                   /\ heap' = [heap1 EXCEPT ![ptr] = [e2 EXCEPT !.uploaded = TRUE]]
                   /\ ch' = Append(ch, [entry |-> ptr, events |-> e2.events])
                   /\ UNCHANGED fatal
              ELSE /\ heap' = [heap1 EXCEPT ![ptr] = e2]
                   /\ UNCHANGED <<fatal, ch>>
    /\ UNCHANGED <<finished, maxNumEvents, localDir, bucket, pc, history, tasks,
                   latch, localFiles, bucketObjects, logs>>

\* part_001 lines 233-250: on a tick the worker takes one batch off the
\* channel, if there is one, serializes, names and writes it. A panic of
\* buildObjectName runs the deferred latch.Done() and ends the process; a
\* failure of the local write is a log.Fatalf (line 79).
WorkerSelect(w, okLocal, okBucket) ==
    /\ Running /\ tasks[w].pc = "tick"
    /\ IF ch = <<>>
       THEN /\ tasks' = [tasks EXCEPT ![w].pc = "check"]
            /\ UNCHANGED <<ch, fatal, latch, localFiles, bucketObjects, logs>>
       ELSE LET batch == Head(ch)
                events == [events |-> batch.events]
                got == Append(tasks[w].received, batch.entry)
            IN  /\ ch' = Tail(ch)
                /\ IF NamePanics(events)
                   THEN /\ fatal' = NamePanicMessage(events)
                        /\ tasks' = [tasks EXCEPT ![w].pc = "panicked",
                                                  ![w].received = got]
                        /\ latch' = latch - 1
                        /\ UNCHANGED <<localFiles, bucketObjects, logs>>
                   ELSE IF localDir /\ ~okLocal
                   THEN /\ fatal' = "Cannot write data to a file"
                        /\ tasks' = [tasks EXCEPT ![w].received = got]
                        /\ UNCHANGED <<latch, localFiles, bucketObjects, logs>>
                   ELSE LET name == buildObjectName(events)
                            data == PoolSerializeEvents(batch.events)
                        IN  /\ localFiles' = IF localDir THEN Put(localFiles, name, data)
                                                         ELSE localFiles
                            /\ bucketObjects' = IF bucket /\ okBucket
                                                THEN Put(bucketObjects, name, data)
                                                ELSE bucketObjects
                            /\ logs' = logs \cup
                                  {IF bucket /\ ~okBucket
                                   THEN <<"Failed to upload payload", name>>
                                   ELSE <<"Uploaded payload", name>>}
                            /\ tasks' = [tasks EXCEPT ![w].pc = "check",
                                                      ![w].received = got]
                            /\ UNCHANGED <<fatal, latch>>
    /\ UNCHANGED <<finished, maxNumEvents, localDir, bucket, pc, nread, heap,
                   connToLogs, history>>

\* part_001 lines 252-254 and the deferred latch.Done(): `finished` is read
\* with no synchronization while main writes it, so once it is set the read
\* yields the new value or still the old one
WorkerCheck(w, seen) ==
    /\ Running /\ tasks[w].pc = "check"
    /\ seen => finished
    /\ IF seen
       THEN tasks' = [tasks EXCEPT ![w].pc = "stopped"] /\ latch' = latch - 1
       ELSE tasks' = [tasks EXCEPT ![w].pc = "tick"] /\ UNCHANGED latch
    /\ UNCHANGED <<ch, finished, maxNumEvents, localDir, bucket, pc, fatal, nread,
                   heap, connToLogs, history, localFiles, bucketObjects, logs>>

\* part_001 lines 324-326: readJSONLine returns, main sets finished and
\* calls latch.Wait()
PoolEndOfInput ==
    /\ Running /\ pc = "reading"
    /\ finished' = TRUE
    /\ pc' = "waiting"
    /\ UNCHANGED <<ch, maxNumEvents, localDir, bucket, fatal, nread, heap,
                   connToLogs, history, tasks, latch, localFiles, bucketObjects, logs>>

\* latch.Wait() returns when every worker has stopped, and main returns
PoolExit ==
    /\ Running /\ pc = "waiting" /\ latch = 0
    /\ pc' = "exited"
    /\ UNCHANGED <<ch, finished, maxNumEvents, localDir, bucket, fatal, nread,
                   heap, connToLogs, history, tasks, latch, localFiles,
                   bucketObjects, logs>>

\* part_001 lines 314-322: the channel is empty and the workers are started
InitPool ==
    /\ maxNumEvents = MaxCap
    /\ localDir \in BOOLEAN
    /\ bucket \in BOOLEAN
    /\ pc = "reading"
    /\ fatal = NotFatal
    /\ nread = 0
    /\ heap = <<>>
    /\ connToLogs = mustLruMap(LruSize)
    /\ history = <<>>
    /\ tasks = [w \in 1..NumWorkers |-> Worker]
    /\ latch = NumWorkers
    /\ localFiles = {}
    /\ bucketObjects = {}
    /\ logs = {}
    /\ ch = <<>>
    /\ finished = FALSE

NextPool ==
    \/ \E l \in PoolLines : nread < MaxUploadLines /\ PoolReadEvent(l)
    \/ \E w \in 1..NumWorkers : \E okLocal, okBucket \in BOOLEAN :
          WorkerSelect(w, okLocal, okBucket)
    \/ \E w \in 1..NumWorkers : \E seen \in BOOLEAN : WorkerCheck(w, seen)
    \/ PoolEndOfInput
    \/ PoolExit

SpecPool == InitPool /\ [][NextPool]_vars

\* ================================================================== claims
Ptrs == 1..Len(heap)
TaskIds == 1..Len(tasks)
TasksOf(ptr) == {i \in TaskIds : tasks[i].entry = ptr}
ConnOf(i) == heap[tasks[i].entry].connID

\* the upload tasks whose object was written to a sink
Uploads == {i \in TaskIds : tasks[i].pc = "done" /\ ~tasks[i].err /\ tasks[i].tried # {}}
Envelope(i) == tasks[i].data[1]
Applied(ptr) == history[ptr].applied

\* the entry of the same connection id created last before ptr, 0 if none
PrevEntry(ptr) ==
    LET prev == {q \in 1..(ptr - 1) : heap[q].connID = heap[ptr].connID}
    IN  IF prev = {} THEN 0 ELSE CHOOSE q \in prev : \A r \in prev : r <= q

\* the events of ptr's connection id since the id's last terminal event:
\* those applied to ptr, after those of the id's earlier entries that were
\* evicted before a `free` reached them
RECURSIVE Attributed(_)
Attributed(ptr) ==
    LET q == PrevEntry(ptr)
    IN  (IF q # 0 /\ ~heap[q].processed THEN Attributed(q) ELSE <<>>) \o Applied(ptr)

\* every file and object is the envelope of an upload task
SinksHoldEnvelopes ==
    \A o \in localFiles \cup bucketObjects :
        \E i \in Uploads : tasks[i].name = o.name /\ Envelope(i) = o.data

\* C1 (as stated): a connection id finalized by `free` gets exactly one upload
\* task over the whole run, whatever the input.
C1_OneUploadPerConnection ==
    \A c \in Conns :
        (\E ptr \in Ptrs : heap[ptr].connID = c /\ heap[ptr].processed)
            => Cardinality({i \in TaskIds : ConnOf(i) = c}) = 1

\* C1 (amended): every entry finalized by `free` gets exactly one upload task
\* and an entry that is not finalized none; two upload tasks of one connection
\* id are of different entries, the earlier of which has left the table.
C1_OneUploadPerEntry ==
    /\ \A ptr \in Ptrs :
          Cardinality(TasksOf(ptr)) = IF heap[ptr].processed THEN 1 ELSE 0
    /\ \A i, j \in TaskIds :
          (i < j /\ ConnOf(i) = ConnOf(j)) => tasks[i].entry \notin Resident

\* C1 witness: a finalized entry still in the table saw a later event of its
\* connection id, which was discarded, and has its one upload task.
C1_TrailingEventDiscarded ==
    \E ptr \in Ptrs :
        /\ heap[ptr].processed /\ ptr \in Resident
        /\ history[ptr].discarded > 0
        /\ Cardinality(TasksOf(ptr)) = 1

\* C2 (as stated): when the connection id got fewer events than the cap, the
\* uploaded payload is every event of the connection id, in arrival order.
C2_PayloadIsEveryEventOfConnection ==
    \A i \in Uploads :
        Len(Attributed(tasks[i].entry)) < maxNumEvents
            => Envelope(i).payload = Attributed(tasks[i].entry)

\* C2 (amended): when fewer events than the cap were applied to the entry, the
\* uploaded payload is every event applied to the entry, in arrival order, and
\* what the sinks hold is such an envelope.
C2_PayloadIsEveryEventOfEntry ==
    /\ \A i \in Uploads :
          Len(Applied(tasks[i].entry)) < maxNumEvents
              => Envelope(i).payload = Applied(tasks[i].entry)
    /\ SinksHoldEnvelopes

\* C2 witness: an object with accept and free, below the cap, is in the sink.
C2_SmallPayloadUploaded ==
    \E i \in Uploads :
        /\ Len(Applied(tasks[i].entry)) < maxNumEvents
        /\ Len(Envelope(i).payload) >= 2
        /\ \E o \in localFiles : o.data = Envelope(i)

\* C3 (as stated): when the connection id got more events than the cap,
\* num_events is the number of events of the connection id, the payload has
\* exactly cap events and holds the terminal event.
C3_CountOfConnectionPayloadAtCap ==
    \A i \in Uploads :
        LET all == Attributed(tasks[i].entry)
        IN  Len(all) > maxNumEvents
                => /\ Envelope(i).num_events = Len(all)
                   /\ Len(Envelope(i).payload) = maxNumEvents
                   /\ Envelope(i).payload[maxNumEvents] = all[Len(all)]

\* C3 (amended): when more events than the cap were applied to the entry,
\* num_events is the number of events applied to the entry, the payload has
\* exactly cap events and its last is the terminal `free` event.
C3_CountOfEntryPayloadAtCap ==
    \A i \in Uploads :
        LET all == Applied(tasks[i].entry)
        IN  Len(all) > maxNumEvents
                => /\ Envelope(i).num_events = Len(all)
                   /\ Len(Envelope(i).payload) = maxNumEvents
                   /\ Envelope(i).payload[maxNumEvents] = all[Len(all)]
                   /\ all[Len(all)].type = "free"

\* C3 witness: an uploaded entry to which more events than the cap were applied.
C3_TruncatedPayloadUploaded ==
    \E i \in Uploads :
        /\ Len(Applied(tasks[i].entry)) > maxNumEvents
        /\ Envelope(i).num_events > Len(Envelope(i).payload)

Keys == {connToLogs[i].key : i \in 1..Len(connToLogs)}

\* C5: the table never holds more than LruSize entries, and a step that
\* creates an entry for a new connection id while the table is full removes
\* exactly one key and inserts the new one.
C5_TableBounded ==
    /\ [](Len(connToLogs) <= LruSize /\ Cardinality(Keys) = Len(connToLogs))
    /\ [][(Len(heap') = Len(heap) + 1 /\ Len(connToLogs) = LruSize)
            => LET c == heap'[Len(heap')].connID
               IN  /\ c \notin Keys
                   /\ Keys' \ Keys = {c}
                   /\ Cardinality(Keys \ Keys') = 1
                   /\ Len(connToLogs') = LruSize]_vars

\* C5 witness: the table is full and an entry has been evicted from it.
C5_FullTableEvicted ==
    Len(connToLogs) = LruSize /\ \E ptr \in Ptrs : ptr \notin Resident

EvictedUnfinalized == {ptr \in Ptrs : ptr \notin Resident /\ ~heap[ptr].processed}

InPayload(ev, data) == \E k \in 1..Len(data.payload) : data.payload[k] = ev

\* C6: no event applied to an entry that was evicted before it was finalized
\* is in any envelope built, file written or object stored.
C6_EvictedEventsNeverUploaded ==
    \A ptr \in EvictedUnfinalized : \A k \in 1..Len(Applied(ptr)) :
        /\ \A i \in TaskIds :
              tasks[i].data # <<>> => ~InPayload(Applied(ptr)[k], Envelope(i))
        /\ \A o \in localFiles \cup bucketObjects : ~InPayload(Applied(ptr)[k], o.data)

\* C6 witness: an entry with events was evicted unfinalized, and a later
\* entry of the same connection id was finalized and its object written.
C6_FreshEntryUploadedAfterEviction ==
    \E ptr \in EvictedUnfinalized : \E i \in Uploads :
        /\ Applied(ptr) # <<>>
        /\ ConnOf(i) = heap[ptr].connID
        /\ tasks[i].entry > ptr
        /\ \E o \in localFiles : o.data = Envelope(i)

\* C4 (as stated): once the input has ended the process does not end, by
\* main returning or otherwise, while a dispatched upload task is unfinished.
C4_NoExitBeforeUploadsComplete ==
    (pc # "reading" /\ (pc = "exited" \/ crashed))
        => \A i \in TaskIds : tasks[i].pc \in {"done", "panicked"}

\* C7 (as stated): an upload whose entry retains no accept event does not end
\* the process.
C7_MissingAcceptConfined ==
    \A i \in TaskIds :
        FirstAccept(heap[tasks[i].entry].events) = 0 => ~(tasks[i].pc = "panicked" /\ crashed)

\* C8 (as stated): with both sinks configured, a finished upload has tried
\* both, whatever the outcome of either.
C8_SinksIndependent ==
    \A i \in TaskIds :
        (tasks[i].pc = "done" /\ localDir /\ bucket)
            => tasks[i].tried = {"local", "bucket"}

\* C9 (as stated): an event without `time`, or a packet event without a
\* numeric `pn`, does not end the process.
C9_MissingFieldRecoverable ==
    fatal \notin {"interface conversion: time", "interface conversion: pn"}

\* pn of the last event of the type in evs whose pn is an int64, -1 if none
RECURSIVE LastPn(_, _)
LastPn(evs, type) ==
    IF evs = <<>> THEN -1
    ELSE LET ev == evs[Len(evs)]
         IN  IF ev.type = type /\ Int64Ok(ev.pn) THEN ev.pn.val
             ELSE LastPn(SubSeq(evs, 1, Len(evs) - 1), type)

\* C10: in every entry that is not finalized, sentPn and ackedPn are the pn of
\* the most recent packet-sent and packet-acked event with an integer pn
\* applied to the entry, -1 if there was none.
C10_LastPacketNumbers ==
    \A ptr \in Ptrs :
        ~heap[ptr].processed
            => /\ heap[ptr].sentPn = LastPn(Applied(ptr), "packet-sent")
               /\ heap[ptr].ackedPn = LastPn(Applied(ptr), "packet-acked")

\* C10 witness: a later, smaller pn replaced an earlier, larger one.
C10_SmallerPnReplacedLarger ==
    \E ptr \in Ptrs : \E k \in 1..Len(Applied(ptr)) :
        /\ ~heap[ptr].processed
        /\ Applied(ptr)[k].type = "packet-sent"
        /\ Int64Ok(Applied(ptr)[k].pn)
        /\ Applied(ptr)[k].pn.val > heap[ptr].sentPn
        /\ heap[ptr].sentPn >= 0

\* lines whose decoding failed, by what was logged
ParseFailures == {m \in logs : m[1] = "Cannot parse JSON string"}

\* lines applied to an entry
AppliedLines ==
    UNION {{Applied(ptr)[k].line : k \in 1..Len(Applied(ptr))} : ptr \in Ptrs}

RECURSIVE Discarded(_)
Discarded(n) == IF n = 0 THEN 0 ELSE history[n].discarded + Discarded(n - 1)

\* lines consumed that reached no entry and were not logged
SilentlySkipped ==
    nread - Cardinality(AppliedLines) - Discarded(Len(heap)) - Cardinality(ParseFailures)

\* C11: a step that reads a line that does not decode, or a decoded line with
\* no `conn`, consumes the line and leaves the entries, the table, the upload
\* tasks, the latch and the sinks as they were and the process running with
\* the reader still reading; the first logs the line, the second logs
\* nothing; and no line logged as undecodable was applied to an entry.
C11_SkippedLineChangesNothing ==
    /\ [](\A m \in ParseFailures : m[2] \notin AppliedLines)
    /\ [][(ReadMalformed \/ ReadNoConn)
            => /\ nread' = nread + 1
               /\ UNCHANGED <<heap, connToLogs, history, tasks, latch,
                              localFiles, bucketObjects>>
               /\ fatal' = NotFatal /\ pc' = "reading"
               /\ (ReadMalformed => logs' = logs \cup {<<"Cannot parse JSON string", nread'>>})
               /\ (ReadNoConn => logs' = logs)]_vars

\* C11 witness: after a line that did not decode and a line without `conn`,
\* the last line read was a `free` whose entry was uploaded.
C11_ValidLineAfterSkippedLines ==
    /\ ParseFailures # {} /\ SilentlySkipped > 0
    /\ \E i \in Uploads :
          /\ \E k \in 1..Len(Envelope(i).payload) : Envelope(i).payload[k].line = nread
          /\ \A m \in ParseFailures : m[2] < nread
          /\ \E o \in localFiles : o.data = Envelope(i)

\* the input was accept(conn 1, dcid "abc", time 100), packet-sent(conn 1,
\* pn 5, time 101), free(conn 1, time 200) and nothing else, and the cap let
\* the three be stored
ScenarioFed ==
    /\ nread = 3 /\ Len(heap) = 1 /\ maxNumEvents >= 3
    /\ Applied(1) =
          << Event(1, "accept", Num(100), Absent, "abc") @@ [line |-> 1],
             Event(1, "packet-sent", Num(101), Num(5), NoDcid) @@ [line |-> 2],
             Event(1, "free", Num(200), Absent, NoDcid) @@ [line |-> 3] >>

\* C12: once the upload task of the three-event input has finished, the sink
\* holds exactly one object, named by host, "abc" and 100, with sent_pn 5,
\* acked_pn -1, num_events 3 and a payload of the three events; and every
\* envelope built carries its object name, the host, the entry's connection
\* id, the last sent and acked packet numbers, the number of events applied,
\* the times of the first and the last event applied and the events retained.
C12_EnvelopeOfEntry ==
    /\ (ScenarioFed /\ \A i \in TaskIds : tasks[i].pc = "done")
          => /\ Len(tasks) = 1
             /\ Cardinality(localFiles) = 1
             /\ \A o \in localFiles :
                   /\ o.name = <<host, "abc", Num(100)>>
                   /\ o.data.id = o.name
                   /\ o.data.conn_id = 1
                   /\ o.data.sent_pn = 5
                   /\ o.data.acked_pn = -1
                   /\ o.data.num_events = 3
                   /\ o.data.payload = Applied(1)
                   /\ o.data.start_time = [zero |-> FALSE, sec |-> 0, nsec |-> 100000000]
                   /\ o.data.end_time = [zero |-> FALSE, sec |-> 0, nsec |-> 200000000]
    /\ \A i \in TaskIds :
          tasks[i].data # <<>>
              => LET entry == heap[tasks[i].entry]
                     all == Applied(tasks[i].entry)
                 IN  /\ Envelope(i).id = tasks[i].name
                     /\ Envelope(i).host = host
                     /\ Envelope(i).conn_id = all[1].conn
                     /\ Envelope(i).sent_pn = LastPn(all, "packet-sent")
                     /\ Envelope(i).acked_pn = LastPn(all, "packet-acked")
                     /\ Envelope(i).num_events = Len(all)
                     /\ Envelope(i).start_time = millisToTime(all[1].time.val)
                     /\ Envelope(i).end_time = millisToTime(all[Len(all)].time.val)
                     /\ Envelope(i).payload = entry.events
                     /\ all[Len(all)].type = "free"

\* C12 witness: the three-event input was fed and its object is in the sink.
C12_ScenarioUploaded ==
    /\ ScenarioFed
    /\ \A i \in TaskIds : tasks[i].pc = "done"
    /\ \E o \in localFiles : o.data.sent_pn = 5 /\ Len(o.data.payload) = 3

\* C13: no step changes an entry whose processed flag is set (the flag
\* included, so it is set once and stays); every upload task is of a
\* processed entry, an entry has at most one, and the envelope a task built
\* is that of its entry as it is now, which is as it was when the flag was set.
C13_ProcessedEntryFrozen ==
    /\ [][\A ptr \in Ptrs : heap[ptr].processed => heap'[ptr] = heap[ptr]]_vars
    /\ [](\A i \in TaskIds :
            /\ heap[tasks[i].entry].processed
            /\ Cardinality(TasksOf(tasks[i].entry)) = 1
            /\ tasks[i].data # <<>>
                  => Envelope(i) = serializeEvents(tasks[i].name, heap[tasks[i].entry]))

\* C13 witness: an event of the connection id arrived, and was discarded,
\* while the upload task of the processed entry had not yet read the entry.
C13_EventDuringUpload ==
    \E i \in TaskIds :
        /\ tasks[i].pc = "start"
        /\ history[tasks[i].entry].discarded > 0
        /\ Len(heap[tasks[i].entry].events) = 3

\* line of the most recent event that carried the connection id of a resident key
LastAccess(key) == history[LruValue(connToLogs, key)].last

\* C14: when a step removes a key from the table, every other key the table
\* held got an event later than the removed key did, creation and events
\* discarded because the entry is processed included; and the table holds
\* its keys from the most to the least recently accessed.
C14_EvictsLeastRecentlyAccessed ==
    /\ [][\A k \in Keys \ Keys' : \A j \in Keys \ {k} : LastAccess(k) < LastAccess(j)]_vars
    /\ [](\A i, j \in 1..Len(connToLogs) :
            i < j => LastAccess(connToLogs[i].key) > LastAccess(connToLogs[j].key))

\* C14 witness: a processed entry, kept in the table by an event that was
\* discarded, outlived an entry created after it.
C14_DiscardedEventKeptEntry ==
    \E p, q \in Ptrs :
        /\ p < q /\ p \in Resident /\ q \notin Resident
        /\ heap[p].processed /\ history[p].discarded > 0
        /\ history[p].last > history[q].last
        /\ Len(Applied(p)) = 1

Min(a, b) == IF a < b THEN a ELSE b

\* the events of evs that are not `free`, in order
NonFree(evs) == SelectSeq(evs, LAMBDA ev : ev.type # "free")
\* the `free` events of evs
Frees(evs) == SelectSeq(evs, LAMBDA ev : ev.type = "free")

\* C15 (as stated): the events stored are the first maxNumEvents non-`free`
\* events applied (a non-`free` event is dropped only when the stored count
\* equals the maximum), followed by the `free` event if one was applied.
C15_DroppedOnlyAtMaximum ==
    \A ptr \in Ptrs :
        LET nonFree == NonFree(Applied(ptr))
        IN  heap[ptr].events
                = SubSeq(nonFree, 1, Min(Len(nonFree), maxNumEvents)) \o Frees(Applied(ptr))

\* C15 (amended): the events stored are the first maxNumEvents - 1 non-`free`
\* events applied (a non-`free` event is dropped once the stored count is one
\* below the maximum), followed by the `free` event if one was applied; the
\* `free` event is the last event applied.
C15_DroppedOneBelowMaximum ==
    \A ptr \in Ptrs :
        LET nonFree == NonFree(Applied(ptr))
        IN  /\ heap[ptr].events
                  = SubSeq(nonFree, 1, Min(Len(nonFree), maxNumEvents - 1))
                        \o Frees(Applied(ptr))
            /\ Len(Frees(Applied(ptr))) <= 1
            /\ \A k \in 1..Len(Applied(ptr)) :
                  Applied(ptr)[k].type = "free" => k = Len(Applied(ptr))

\* C15 witness: a non-`free` event was dropped with the stored count one
\* below the maximum, and the `free` event was stored after it.
C15_FreeStoredAfterDrop ==
    \E ptr \in Ptrs :
        /\ maxNumEvents >= 2
        /\ Len(NonFree(Applied(ptr))) >= maxNumEvents
        /\ Len(heap[ptr].events) = maxNumEvents
        /\ heap[ptr].events[maxNumEvents].type = "free"

\* C16: an entry is processed exactly when a `free` event was applied to it,
\* and it has an upload task exactly when it is processed; an entry to which
\* only other events were applied, whatever their packet numbers, has none.
C16_FinalizedIffFree ==
    \A ptr \in Ptrs :
        /\ heap[ptr].processed <=> Frees(Applied(ptr)) # <<>>
        /\ TasksOf(ptr) # {} <=> heap[ptr].processed

\* C16 witness: an entry that saw the largest packet number, sent or acked,
\* and another event is not processed and has no upload task, while an entry
\* to which `free` was applied has one.
C16_PacketNumbersDoNotFinalize ==
    \E p, q \in Ptrs :
        /\ ~heap[p].processed /\ TasksOf(p) = {}
        /\ heap[p].sentPn = MaxPn \/ heap[p].ackedPn = MaxPn
        /\ heap[p].numEvents >= 2
        /\ heap[q].processed /\ TasksOf(q) # {}

\* C17 (as stated): the entry of an upload task is not in the table.
C17_FinalizedEntryLeavesTable ==
    \A i \in TaskIds : tasks[i].entry \notin Resident

\* C17 (amended): the step that dispatches the upload task of an entry leaves
\* the entry in the table, as the most recently used; an entry, processed or
\* not, leaves the table only in a step that creates an entry for a new
\* connection id while the table is full.
C17_FinalizedEntryStaysUntilEvicted ==
    /\ [][\A i \in 1..Len(tasks') :
              i > Len(tasks) => /\ connToLogs' # <<>>
                                /\ connToLogs'[1].value = tasks'[i].entry
                                /\ heap'[tasks'[i].entry].processed]_vars
    /\ [][\A ptr \in Resident :
              ptr \notin Resident'
                  => /\ Len(heap') = Len(heap) + 1
                     /\ Len(connToLogs) = LruSize
                     /\ connToLogs[LruSize].value = ptr]_vars

\* C17 witness: the table is full of processed entries whose uploads are
\* written, and an event of one of them has been discarded since.
C17_FinalizedEntriesFillTable ==
    /\ Len(connToLogs) = LruSize
    /\ \A ptr \in Resident :
          /\ heap[ptr].processed
          /\ \A i \in TasksOf(ptr) : i \in Uploads
    /\ \E ptr \in Resident : history[ptr].discarded > 0

\* the entry that the events evs, all with an integer `time`, make of a
\* fresh entry of connection id c
EntryOf(c, evs) ==
    [connID |-> c,
     startTime |-> millisToTime(evs[1].time.val),
     endTime |-> millisToTime(evs[Len(evs)].time.val),
     sentPn |-> LastPn(evs, "packet-sent"),
     ackedPn |-> LastPn(evs, "packet-acked"),
     processed |-> Frees(evs) # <<>>,
     numEvents |-> Len(evs),
     events |-> SubSeq(NonFree(evs), 1, Min(Len(NonFree(evs)), maxNumEvents - 1))
                    \o Frees(evs)]

\* C18: an entry created for a connection id that had an entry before is
\* created when the earlier entry, processed or not, has left the table, and
\* it is what the events applied to it alone make of a fresh entry: packet
\* numbers, count, stored events, times and flag owe nothing to the earlier
\* entry.
C18_FreshEntryAfterEviction ==
    /\ [][Len(heap') > Len(heap)
            => \A q \in Ptrs : heap[q].connID = heap'[Len(heap')].connID
                                  => q \notin Resident]_vars
    /\ [](\A ptr \in Ptrs :
            PrevEntry(ptr) # 0
                => /\ Applied(ptr) # <<>>
                   /\ \A k \in 1..Len(Applied(ptr)) : Applied(ptr)[k].conn = heap[ptr].connID
                   /\ heap[ptr] = EntryOf(heap[ptr].connID, Applied(ptr)))

\* C18 witness: an entry with a packet number and a start time was evicted;
\* the entry created by the next event of its connection id has no packet
\* number and a later start time, and was uploaded.
C18_NothingCarriedOver ==
    \E ptr \in Ptrs :
        LET q == PrevEntry(ptr)
        IN  /\ q # 0
            /\ heap[q].sentPn = 1 /\ heap[ptr].sentPn = -1
            /\ heap[q].startTime # heap[ptr].startTime
            /\ heap[q].numEvents >= 1 /\ heap[ptr].numEvents = 2
            /\ \E i \in Uploads : tasks[i].entry = ptr

\* the events of evs whose `time` is an int64, in order
Timed(evs) == SelectSeq(evs, LAMBDA ev : Int64Ok(ev.time))

\* C19 (as stated): startTime is the `time` of the first event with a `time`
\* applied to the entry and no step changes it once such an event was
\* applied; endTime is the `time` of the last such event; both are unset
\* while there was none.
C19_StartTimeSetOnce ==
    /\ [](\A ptr \in Ptrs :
            LET timed == Timed(Applied(ptr))
            IN  IF timed = <<>>
                THEN heap[ptr].startTime = ZeroTime /\ heap[ptr].endTime = ZeroTime
                ELSE /\ heap[ptr].startTime = EventTime(timed[1].time)
                     /\ heap[ptr].endTime = EventTime(timed[Len(timed)].time))
    /\ [][\A ptr \in Ptrs :
              Timed(Applied(ptr)) # <<>> => heap'[ptr].startTime = heap[ptr].startTime]_vars

\* the reader can take its next step: read any line while lines remain, or
\* meet the end of the input
ReaderCanStep ==
    /\ ENABLED EndOfInput
    /\ nread < MaxUploadLines => \A l \in UploadLines : ENABLED ReadEvent(l)

\* C20 (as stated): while the reader has not met the end of the input, its
\* next step can be taken whatever the upload tasks have or have not done:
\* no state of the upload tasks makes it wait, and none stops it.
C20_IngestReachesEndOfInput ==
    pc = "reading"
        => /\ ~crashed => ReaderCanStep
           /\ ~(crashed /\ \E i \in TaskIds : tasks[i].pc = "panicked")

\* the part of C20 on waiting alone
C20_RunningReaderNeverWaits ==
    (pc = "reading" /\ ~crashed) => ReaderCanStep

\* upload tasks whose write returned an error
FailedWrites == {i \in TaskIds : tasks[i].pc = "done" /\ tasks[i].err}

\* C21: a write failure was logged for an object name only if an upload task
\* of that name has finished with the error, and such a task is logged; the
\* step in which a task's write returns, with or without an error, finishes
\* the task, releases one latch count and leaves the process running, the
\* reader, the table, the entries and the other tasks as they were; a
\* finished task never changes again and its envelope is never written
\* afterwards.
C21_WriteFailureLoggedNotRetried ==
    /\ [](/\ \A m \in logs :
              (m[1] = "Failed to write the payload"
                  => (\E k \in FailedWrites : tasks[k].name = m[2]))
           /\ \A i \in FailedWrites :
                 <<"Failed to write the payload", tasks[i].name>> \in logs)
    /\ [][\A i \in TaskIds :
              /\ (tasks[i].pc = "write" /\ tasks'[i] # tasks[i])
                    => /\ tasks'[i].pc = "done"
                       /\ latch' = latch - 1
                       /\ UNCHANGED <<pc, fatal, nread, heap, connToLogs>>
                       /\ Len(tasks') = Len(tasks)
                       /\ \A j \in TaskIds \ {i} : tasks'[j] = tasks[j]
              /\ tasks[i].pc = "done"
                    => /\ tasks'[i] = tasks[i]
                       /\ \A o \in (localFiles' \ localFiles) \cup (bucketObjects' \ bucketObjects) :
                             o.data # Envelope(i)]_vars

\* C21 witness: after a write failure of one connection's upload, which was
\* logged, the upload of another connection dispatched later was written and
\* the process has returned from main.
C21_OtherUploadAfterFailure ==
    \E i \in FailedWrites : \E j \in Uploads :
        /\ i < j /\ ConnOf(i) # ConnOf(j)
        /\ <<"Failed to write the payload", tasks[i].name>> \in logs
        /\ \E o \in localFiles \cup bucketObjects : o.data = Envelope(j)
        /\ \A o \in localFiles \cup bucketObjects : o.data # Envelope(i)
        /\ pc = "exited" /\ latch = 0

\* upload tasks that have built their object name
Named == {i \in TaskIds : tasks[i].name # NoName}

\* the `accept` events among the events retained by the entry of task i
Accepts(i) == SelectSeq(heap[tasks[i].entry].events, LAMBDA ev : ev.type = "accept")

\* C22: the object name of an upload task is the host, the dcid and the time
\* of the earliest `accept` event its entry retains, which has a dcid; two
\* tasks whose earliest retained `accept` events have the same dcid and time
\* have the same name, whatever else their entries hold.
C22_NameFromFirstAccept ==
    /\ \A i \in Named :
          /\ Accepts(i) # <<>>
          /\ Accepts(i)[1].dcid # NoDcid
          /\ tasks[i].name = <<host, Accepts(i)[1].dcid, Accepts(i)[1].time>>
          /\ \A k \in 1..Len(heap[tasks[i].entry].events) :
                heap[tasks[i].entry].events[k].type = "accept"
                    => heap[tasks[i].entry].events[k].line >= Accepts(i)[1].line
    /\ \A i, j \in Named :
          (Accepts(i)[1].dcid = Accepts(j)[1].dcid /\ Accepts(i)[1].time = Accepts(j)[1].time)
              => tasks[i].name = tasks[j].name

\* C22 witness: an entry retains two `accept` events, the later one without
\* a dcid, and its upload was written under the name of the first.
C22_LaterAcceptIgnored ==
    \E i \in Uploads :
        /\ Len(Accepts(i)) = 2
        /\ Accepts(i)[2].dcid # Accepts(i)[1].dcid
        /\ tasks[i].name = <<host, "abc", Num(1)>>
        /\ \E o \in localFiles \cup bucketObjects : o.name = tasks[i].name

\* upload tasks that have not returned
Unfinished == {i \in TaskIds : tasks[i].pc \in {"start", "write"}}

PoolSent == {ptr \in Ptrs : heap[ptr].uploaded}

\* entries whose events a worker took off the channel
PoolReceived ==
    UNION {{tasks[w].received[k] : k \in 1..Len(tasks[w].received)} : w \in 1..NumWorkers}

\* C24 (as stated): when every worker has stopped the channel is empty, and
\* when main has returned every batch sent on the channel was taken off it by
\* a worker.
C24_EveryBatchReceivedBeforeExit ==
    /\ (\A w \in 1..NumWorkers : tasks[w].pc = "stopped") => ch = <<>>
    /\ pc = "exited" => PoolSent \subseteq PoolReceived

====
